---- MODULE Spec2Model ----
(***************************************************************************)
(* Model of run_solver.py: main() builds a routing constraint model        *)
(* (the Time dimension, pickup/delivery constraints, pickup time            *)
(* windows, a chain of break intervals per vehicle, disjunctions) and      *)
(* hands it to the routing engine, which returns an assignment satisfying  *)
(* every constraint main() added.  The state is the constraint store under *)
(* construction, main()'s loop position, and the returned assignment.      *)
(* The Count and Capacity dimensions (lines 100-108, 125-137) rest on      *)
(* evaluators outside this file and constrain neither the Time cumuls nor  *)
(* the breaks; they are left out.  Every model built here has an           *)
(* assignment, so the 'assignment failed' branch is never taken.           *)
(***************************************************************************)
EXTENDS Integers, Sequences, FiniteSets, TLC

VARIABLES
    args,                 \* parsed arguments: horizon, numvehicles
    demand,               \* d.demand: sequence of records origin/destination/early/late
    expanded_mm,          \* travel-minute matrix: <<from, to>> -> minutes or NaN
    vehicles,             \* vehicles.vehicles: 0..n-1 -> vehicle record
    service,              \* d.get_service_time: node -> minutes
    tick,                 \* grid of the time values the engine's search tries
    pc,                   \* position of main()
    idx,                  \* loop counter of the demand / node loops
    i,                    \* vehicle loop counter of the breaks section
    intvl,                \* loop counter of the additional-breaks loop
    pickup_deliveries,    \* pairs registered with AddPickupAndDelivery
    solver_constraints,   \* constraints given to solver.Add / AddConstraint
    time_range,           \* Time CumulVar range of every node
    start_range,          \* Time CumulVar range of every vehicle start
    breaks,               \* breaks[i]: the chain of break intervals of vehicle i
    break_intervals,      \* vehicle -> intervals attached to the Time dimension
    disjunctions,         \* sequence of [indices, penalty] from AddDisjunction
    next_domain,          \* node -> set of nodes NextVar may take
    assignment            \* result of SolveWithParameters, or NoAssignment

vars == <<args, demand, expanded_mm, vehicles, service, tick, pc, idx, i, intvl,
          pickup_deliveries, solver_constraints, time_range, start_range,
          breaks, break_intervals, disjunctions, next_domain, assignment>>

inputs == <<args, demand, expanded_mm, vehicles, service, tick>>

-----------------------------------------------------------------------------
(* Program constants *)

need_breaks == 9
penalty == 10000000
break_penalty == 0
initial_drive == 11
follow_delay == 660
minutes_per_hour == 60

must_start_offset == 11 * minutes_per_hour
break_duration == 10 * minutes_per_hour
break_cycle == (10 + 11) * minutes_per_hour

(* Bound of the exploration: number of grid points of the time axis. *)
MaxTicks == 44

(* An undefined matrix entry *)
NaN == 0 - 1

(* Value of VehicleVar at a node that is not visited *)
Dropped == 0 - 1

NoAssignment ==
    [routes |-> <<>>, cumul |-> <<>>, route_end |-> <<>>, brk |-> <<>>]

-----------------------------------------------------------------------------
(* Helpers *)

Range(s) == {s[k] : k \in DOMAIN s}

Max(a, b) == IF a >= b THEN a ELSE b

Min(a, b) == IF a <= b THEN a ELSE b

RECURSIVE Sum(_, _)
Sum(f, S) == IF S = {} THEN 0
             ELSE LET x == CHOOSE x \in S : TRUE IN f[x] + Sum(f, S \ {x})

num_nodes == Cardinality({p[1] : p \in DOMAIN expanded_mm})

Nodes == 0 .. (num_nodes - 1)

VehicleIds == 0 .. (args.numvehicles - 1)

(* The depot given to RoutingIndexManager. *)
Depot == vehicles[0].depot_index

RegularNodes == Nodes \ {Depot}

(* d.origins.index: the pickup nodes *)
pickups == {demand[k].origin : k \in DOMAIN demand}

deliveries == {demand[k].destination : k \in DOMAIN demand}

(* d.get_demand(c): signed quantity at a node *)
get_demand(c) == IF c \in pickups THEN 1
                 ELSE IF c \in deliveries THEN -1 ELSE 0

(* d.get_service_time(n) *)
get_service_time(n) == service[n]

(* node_visit_transit built at the start of the breaks section *)
node_visit_transit == [n \in Nodes |-> get_service_time(n)]

-----------------------------------------------------------------------------
(* Input data.  Every scenario has one depot (node 0 of the solver space),  *)
(* at least one demand record and at least one vehicle.                     *)

(* A square matrix over 0..n-1: `dflt` off the diagonal, 0 on it, and the   *)
(* entries of `over` (<<from, to>> -> minutes or NaN) in place of `dflt`.   *)
Matrix(n, dflt, over) ==
    [p \in (0 .. (n - 1)) \X (0 .. (n - 1)) |->
        IF p \in DOMAIN over THEN over[p]
        ELSE IF p[1] = p[2] THEN 0 ELSE dflt]

(* V.Vehicles(numvehicles): index, capacity, depot, operating window *)
Fleet(n, horizon) ==
    [v \in 0 .. (n - 1) |->
        [index |-> v, capacity |-> 1, depot_index |-> 0,
         time_window |-> <<0, horizon>>]]

Record(o, dst, e, l) == [origin |-> o, destination |-> dst, early |-> e, late |-> l]

Scenario(nv, h, recs, mm, st, tk) ==
    [numvehicles |-> nv, horizon |-> h, demand |-> recs, matrix |-> mm,
     service |-> st, tick |-> tk]

NoService(n) == [c \in 0 .. (n - 1) |-> 0]

(* One vehicle, depot and one stop pair 100 minutes apart, window [0, 10080] *)
ScenarioA ==
    Scenario(1, 2000, <<Record(1, 2, 0, 10080)>>,
             Matrix(3, 100, <<>>), NoService(3), 60)

(* One vehicle, horizon 2000, one record needing 800 minutes of driving *)
ScenarioB ==
    Scenario(1, 2000, <<Record(1, 2, 0, 2000)>>,
             Matrix(3, 0, (<<1, 2>> :> 800) @@ (<<2, 1>> :> 800)),
             NoService(3), 60)

(* As ScenarioB with a longer horizon and 60 minutes of service per stop *)
ScenarioLong ==
    Scenario(1, 2640, <<Record(1, 2, 0, 360)>>,
             Matrix(3, 0, (<<1, 2>> :> 800) @@ (<<2, 1>> :> 800)),
             [c \in 0 .. 2 |-> IF c = 0 THEN 0 ELSE 60], 60)

(* Two vehicles, one record *)
ScenarioTwo ==
    Scenario(2, 2000, <<Record(1, 2, 0, 420)>>,
             Matrix(3, 200, <<>>), NoService(3), 210)

(* Two vehicles, two records, a node without demand, an undefined entry *)
ScenarioFleet ==
    Scenario(2, 2000, <<Record(1, 2, 0, 840), Record(3, 4, 420, 840)>>,
             Matrix(6, 200, (<<2, 3>> :> NaN) @@ (<<4, 5>> :> NaN)),
             NoService(6), 210)

Scenarios == {ScenarioA, ScenarioB, ScenarioLong, ScenarioTwo, ScenarioFleet}

-----------------------------------------------------------------------------
(* Interval variables *)

(* solver.FixedDurationIntervalVar(start_variable, duration, name): always  *)
(* performed, start synchronised with route_start + offset                  *)
SyncedInterval(offset, duration) ==
    [kind |-> "synced", start_offset |-> offset, start_min |-> 0, start_max |-> 0,
     duration |-> duration, performed |-> "always", check |-> {}]

(* solver.FixedDurationIntervalVar(start_variable, duration,                *)
(* performed_variable, name): performed iff the product of the conditions   *)
(* VehicleVar(node) == vehicle is 1                                         *)
CheckedInterval(offset, duration, check) ==
    [kind |-> "synced", start_offset |-> offset, start_min |-> 0, start_max |-> 0,
     duration |-> duration, performed |-> "check", check |-> check]

(* solver.FixedDurationIntervalVar(start_min, start_max, duration,          *)
(* optional, name)                                                          *)
RangedInterval(start_min, start_max, duration, optional) ==
    [kind |-> "ranged", start_offset |-> 0, start_min |-> start_min,
     start_max |-> start_max, duration |-> duration,
     performed |-> IF optional THEN "optional" ELSE "always", check |-> {}]

(* IntVar.SetRange(lo, hi): intersect the current range *)
SetRange(range, lo, hi) == <<Max(range[1], lo), Min(range[2], hi)>>

NoConstraints ==
    [same_vehicle |-> {}, cumul_leq |-> {}, starts_after |-> {}, conditional |-> {}]

-----------------------------------------------------------------------------
(* State after the routing model and its dimensions are created (lines      *)
(* 38-137): Time cumuls lie in [0, horizon], every start cumul is fixed to   *)
(* zero, nothing is paired, constrained or droppable yet.                    *)

Init ==
    /\ \E s \in Scenarios :
        /\ args = [horizon |-> s.horizon, numvehicles |-> s.numvehicles]
        /\ demand = s.demand
        /\ expanded_mm = s.matrix
        /\ vehicles = Fleet(s.numvehicles, s.horizon)
        /\ service = s.service
        /\ tick = s.tick
        /\ time_range = [n \in {p[1] : p \in DOMAIN s.matrix} |-> <<0, s.horizon>>]
        /\ start_range = [v \in 0 .. (s.numvehicles - 1) |-> <<0, 0>>]
        /\ breaks = [v \in 0 .. (s.numvehicles - 1) |-> <<>>]
        /\ break_intervals = [v \in 0 .. (s.numvehicles - 1) |-> <<>>]
        /\ next_domain = [n \in {p[1] : p \in DOMAIN s.matrix} |->
                              {p[1] : p \in DOMAIN s.matrix}]
    /\ pc = "pickup_delivery"
    /\ idx = 1
    /\ i = 0
    /\ intvl = 0
    /\ pickup_deliveries = {}
    /\ solver_constraints = NoConstraints
    /\ disjunctions = <<>>
    /\ assignment = NoAssignment

-----------------------------------------------------------------------------
(* Model construction *)

(* lines 142-152: one iteration of the pickup and delivery loop *)
AddPickupAndDelivery ==
    /\ pc = "pickup_delivery"
    /\ idx <= Len(demand)
    /\ LET record == demand[idx]
           pickup_index == record.origin
           delivery_index == record.destination
       IN /\ pickup_deliveries' =
                 pickup_deliveries \cup {<<pickup_index, delivery_index>>}
          /\ solver_constraints' =
                 [solver_constraints EXCEPT
                    !.same_vehicle = @ \cup {<<pickup_index, delivery_index>>},
                    !.cumul_leq = @ \cup {<<pickup_index, delivery_index>>}]
    /\ idx' = IF idx = Len(demand) THEN 1 ELSE idx + 1
    /\ pc' = IF idx = Len(demand) THEN "time_window" ELSE pc
    /\ UNCHANGED <<inputs, i, intvl, time_range, start_range, breaks,
                   break_intervals, disjunctions, next_domain, assignment>>

(* lines 157-163: one iteration of the time window loop *)
SetPickupTimeWindow ==
    /\ pc = "time_window"
    /\ idx <= Len(demand)
    /\ LET record == demand[idx]
           pickup_index == record.origin
           early == record.early
           late == record.late
       IN time_range' =
              [time_range EXCEPT
                 ![pickup_index] = SetRange(time_range[pickup_index], early, late)]
    /\ idx' = IF idx = Len(demand) THEN 0 ELSE idx + 1
    /\ pc' = IF idx = Len(demand) THEN "vehicle_window" ELSE pc
    /\ UNCHANGED <<inputs, i, intvl, pickup_deliveries, solver_constraints,
                   start_range, breaks, break_intervals, disjunctions,
                   next_domain, assignment>>

(* lines 166-171: one iteration of the vehicle start window loop *)
SetVehicleStartWindow ==
    /\ pc = "vehicle_window"
    /\ idx < args.numvehicles
    /\ LET vehicle == vehicles[idx]
           vehicle_id == vehicle.index
       IN start_range' =
              [start_range EXCEPT
                 ![vehicle_id] = SetRange(start_range[vehicle_id],
                                          vehicle.time_window[1],
                                          vehicle.time_window[2])]
    /\ idx' = IF idx + 1 = args.numvehicles THEN 0 ELSE idx + 1
    /\ pc' = IF idx + 1 = args.numvehicles THEN "first_break" ELSE pc
    /\ UNCHANGED <<inputs, i, intvl, pickup_deliveries, solver_constraints,
                   time_range, breaks, break_intervals, disjunctions,
                   next_domain, assignment>>

(* lines 189-247: the first break of vehicle i.  Vehicle 0 gets a break     *)
(* that is always performed and starts at must_start = route_start + 11h;   *)
(* every other vehicle gets a break synchronised with route_start whose     *)
(* performed variable is vehicle_check, the product over the pickups of     *)
(* VehicleVar(node) == i, constrained to start after the end of the         *)
(* 11-minute 'initial drive' interval that also starts at route_start.      *)
FirstBreak ==
    /\ pc = "first_break"
    /\ LET vehicle_check == {<<node, i>> : node \in pickups}
           first_10hr_break ==
               IF i = 0
               THEN SyncedInterval(must_start_offset, break_duration)
               ELSE CheckedInterval(0, break_duration, vehicle_check)
           trip_start == SyncedInterval(0, initial_drive)
           follow_after_constraint ==
               [vehicle |-> i, t1 |-> 1, t2_index |-> 0, t2 |-> trip_start,
                delay |-> 0]
       IN /\ breaks' = [breaks EXCEPT ![i] = <<first_10hr_break>>]
          /\ solver_constraints' =
                 IF i = 0 THEN solver_constraints
                 ELSE [solver_constraints EXCEPT
                         !.starts_after = @ \cup {follow_after_constraint}]
    /\ intvl' = 1
    /\ pc' = "next_break"
    /\ UNCHANGED <<inputs, idx, i, pickup_deliveries, time_range, start_range,
                   break_intervals, disjunctions, next_domain, assignment>>

(* Variant: the cycle count taken one lower *)
break_start_offset_early(n) == (n - 1) * break_cycle

(* Offset from route_start of the instant compared with route_end in the    *)
(* conditional constraint of the break built in iteration intvl (line 326)  *)
break_start_offset(n) == n * break_cycle

(* lines 290-335: one iteration of the additional-breaks loop *)
NextBreak ==
    /\ pc = "next_break"
    /\ intvl < need_breaks
    /\ LET min_start_time == 0 + (intvl - 1) * break_cycle
           max_start_time == args.horizon - break_duration
           optional_break == intvl > 0
           next_10hr_break ==
               RangedInterval(min_start_time, max_start_time, break_duration,
                              optional_break)
           follow_after_constraint ==
               [vehicle |-> i, t1 |-> intvl + 1, t2_index |-> intvl,
                t2 |-> breaks[i][intvl], delay |-> follow_delay]
           expression ==
               [vehicle |-> i, break |-> intvl + 1,
                offset |-> break_start_offset(intvl)]
       IN /\ breaks' = [breaks EXCEPT ![i] = Append(@, next_10hr_break)]
          /\ solver_constraints' =
                 [solver_constraints EXCEPT
                    !.starts_after = @ \cup {follow_after_constraint},
                    !.conditional =
                        IF optional_break THEN @ \cup {expression} ELSE @]
    /\ intvl' = intvl + 1
    /\ pc' = IF intvl + 1 = need_breaks THEN "set_breaks" ELSE pc
    /\ UNCHANGED <<inputs, idx, i, pickup_deliveries, time_range, start_range,
                   break_intervals, disjunctions, next_domain, assignment>>

(* lines 340-341: attach the chain to the Time dimension, next vehicle *)
SetBreakIntervalsOfVehicle ==
    /\ pc = "set_breaks"
    /\ break_intervals' = [break_intervals EXCEPT ![i] = breaks[i]]
    /\ i' = i + 1
    /\ intvl' = 0
    /\ pc' = IF i + 1 = args.numvehicles THEN "disjunction" ELSE "first_break"
    /\ UNCHANGED <<inputs, idx, pickup_deliveries, solver_constraints,
                   time_range, start_range, breaks, disjunctions, next_domain,
                   assignment>>

(* Variant: every node dropped at the demand penalty *)
disjunction_penalty_flat(c) == penalty

(* lines 381-384: the penalty for dropping node c *)
disjunction_penalty(c) == IF get_demand(c) = 0 THEN break_penalty ELSE penalty

(* lines 377-386: one iteration of the disjunction loop over the nodes *)
AddDisjunction ==
    /\ pc = "disjunction"
    /\ idx < num_nodes
    /\ LET c == idx
           p == disjunction_penalty(c)
       IN disjunctions' =
              IF c = 0 THEN disjunctions
              ELSE Append(disjunctions, [indices |-> {c}, penalty |-> p])
    /\ idx' = idx + 1
    /\ pc' = IF idx + 1 = num_nodes THEN "solve" ELSE pc
    /\ UNCHANGED <<inputs, i, intvl, pickup_deliveries, solver_constraints,
                   time_range, start_range, breaks, break_intervals,
                   next_domain, assignment>>

-----------------------------------------------------------------------------
(* The routing engine.  An assignment gives every vehicle a route (the      *)
(* visited nodes in order), every visited node and route end a Time cumul,  *)
(* and every break interval a performed flag and a start.  The engine may   *)
(* return any assignment that satisfies the model main() has built.         *)

(* Time values tried by the search *)
TimePoints == {k * tick : k \in 0 .. MaxTicks} \cap (0 .. args.horizon)

(* CumulVar(routing.Start(v)) *)
route_start(v) == start_range[v][1]

(* E.create_time_callback: travel time plus the service time at the         *)
(* destination.  The value for an undefined entry is not fixed by main();   *)
(* whatever it is, the cumuls along the arc cannot decrease.                *)
time_callback(from, to) ==
    IF expanded_mm[<<from, to>>] = NaN THEN 0
    ELSE expanded_mm[<<from, to>>] + get_service_time(to)

InjectiveSeqs(S) ==
    {s \in UNION {[1 .. k -> S] : k \in 0 .. Cardinality(S)} :
        \A a, b \in DOMAIN s : a # b => s[a] # s[b]}

RECURSIVE Product(_, _)
(* The functions f over 0..n-1 with f[v] in S[v] *)
Product(S, n) ==
    IF n = 0 THEN {<<>>}
    ELSE {f @@ ((n - 1) :> x) : f \in Product(S, n - 1), x \in S[n - 1]}

(* routing.VehicleVar(index) under the given routes *)
VehicleVar(routes, n) ==
    IF \E v \in DOMAIN routes : n \in Range(routes[v])
    THEN CHOOSE v \in DOMAIN routes : n \in Range(routes[v])
    ELSE Dropped

InDisjunction(n) == \E j \in DOMAIN disjunctions : n \in disjunctions[j].indices

(* Next variables: every arc of the route is in the domain of its tail *)
NextOK(route) ==
    LET path == <<Depot>> \o route \o <<Depot>>
    IN \A k \in 1 .. (Len(path) - 1) : path[k + 1] \in next_domain[path[k]]

(* Routes: disjoint sequences of regular nodes; a node outside every        *)
(* disjunction must be visited; pickup and delivery share the vehicle       *)
(* variable (line 147-149)                                                  *)
SameVehicleOK(routes) ==
    \A pd \in solver_constraints.same_vehicle :
        VehicleVar(routes, pd[1]) = VehicleVar(routes, pd[2])

RouteChoices ==
    {routes \in Product([v \in VehicleIds |-> InjectiveSeqs(RegularNodes)],
                        args.numvehicles) :
        /\ \A v, w \in VehicleIds :
              v # w => Range(routes[v]) \cap Range(routes[w]) = {}
        /\ \A n \in RegularNodes :
              ~InDisjunction(n) => VehicleVar(routes, n) # Dropped
        /\ SameVehicleOK(routes)
        /\ \A v \in VehicleIds : NextOK(routes[v])}

RECURSIVE CumulSeqs(_, _, _, _)
(* Time cumuls of route[k..] followed by the cumul of the route end: each   *)
(* at least the previous cumul plus the transit (the slack is free up to    *)
(* the horizon) and inside the node's range (lines 114-119, 162)            *)
CumulSeqs(route, k, prev_node, prev_time) ==
    IF k > Len(route)
    THEN {<<t>> : t \in {u \in TimePoints :
                            u >= prev_time + time_callback(prev_node, Depot)}}
    ELSE UNION {
            {<<t>> \o rest : rest \in CumulSeqs(route, k + 1, route[k], t)} :
            t \in {u \in TimePoints :
                      /\ u >= prev_time + time_callback(prev_node, route[k])
                      /\ u >= time_range[route[k]][1]
                      /\ u <= time_range[route[k]][2]}}

(* The product of the conditions VehicleVar(node) == vehicle (line 217-221) *)
VehicleCheck(routes, check) ==
    IF \A c \in check : VehicleVar(routes, c[1]) = c[2] THEN 1 ELSE 0

Unperformed == [performed |-> FALSE, start |-> 0]

Performed(s) == [performed |-> TRUE, start |-> s]

(* What an interval variable can be assigned *)
IntervalChoices(itv, routes, v) ==
    IF itv.kind = "synced"
    THEN IF itv.performed = "always" \/ VehicleCheck(routes, itv.check) = 1
         THEN {Performed(route_start(v) + itv.start_offset)}
         ELSE {Unperformed}
    ELSE {Performed(s) : s \in {u \in TimePoints :
                                   u >= itv.start_min /\ u <= itv.start_max}}
         \cup (IF itv.performed = "optional" THEN {Unperformed} ELSE {})

(* Variant: the delay counted from the start of the earlier interval *)
StartsAfterStartOK(c, bs, v) ==
    LET t2_performed == IF c.t2_index = 0 THEN TRUE ELSE bs[c.t2_index].performed
        t2_start == IF c.t2_index = 0 THEN route_start(v) + c.t2.start_offset
                    ELSE bs[c.t2_index].start
    IN (bs[c.t1].performed /\ t2_performed)
           => bs[c.t1].start >= t2_start + c.delay

(* IntervalVar.StartsAfterEndWithDelay: binding when both are performed *)
StartsAfterOK(c, bs, v) ==
    LET t2_performed == IF c.t2_index = 0 THEN TRUE ELSE bs[c.t2_index].performed
        t2_start == IF c.t2_index = 0 THEN route_start(v) + c.t2.start_offset
                    ELSE bs[c.t2_index].start
    IN (bs[c.t1].performed /\ t2_performed)
           => bs[c.t1].start >= t2_start + c.t2.duration + c.delay

RECURSIVE BreakSeqs(_, _, _)
(* Assignments of the first k intervals of the chain of vehicle v that      *)
(* satisfy the ordering constraints among them                              *)
BreakSeqs(routes, v, k) ==
    IF k = 0 THEN {<<>>}
    ELSE {bs \in {Append(pre, b) : pre \in BreakSeqs(routes, v, k - 1),
                                   b \in IntervalChoices(breaks[v][k], routes, v)} :
            \A c \in solver_constraints.starts_after :
                (c.vehicle = v /\ c.t1 = k) => StartsAfterOK(c, bs, v)}

(* solver.ConditionalExpression(time_condition, break_condition, 1) >= 1 *)
ConditionalOK(c, bs, v, route_end) ==
    (route_start(v) + c.offset < route_end) => bs[c.break].performed

(* time_dimension.SetBreakIntervalsOfVehicle(breaks, v, node_visit_transit): *)
(* a performed break lies before the route start, after the route end, or   *)
(* inside one arc, after the visit of its tail node; the arc is long enough *)
(* for its transit and the breaks inside it, which do not overlap.          *)
BreakPlacementOK(route, ts, bs, v) ==
    LET path == <<Depot>> \o route \o <<Depot>>
        at == <<route_start(v)>> \o ts
        route_end == at[Len(at)]
        dur(j) == break_intervals[v][j].duration
        Inside == {j \in DOMAIN break_intervals[v] :
                      /\ bs[j].performed
                      /\ ~(bs[j].start + dur(j) <= route_start(v))
                      /\ ~(bs[j].start >= route_end)}
        InArc(j, k) == /\ bs[j].start >= at[k] + node_visit_transit[path[k]]
                       /\ bs[j].start + dur(j) <= at[k + 1]
    IN /\ \A j \in Inside : \E k \in 1 .. (Len(path) - 1) : InArc(j, k)
       /\ \A k \in 1 .. (Len(path) - 1) :
             at[k + 1] - at[k] >=
                 time_callback(path[k], path[k + 1])
                 + Sum([j \in Inside |-> dur(j)], {j \in Inside : InArc(j, k)})
       /\ \A j1, j2 \in Inside :
             j1 # j2 => \/ bs[j1].start + dur(j1) <= bs[j2].start
                        \/ bs[j2].start + dur(j2) <= bs[j1].start

(* Cumuls and break assignments of vehicle v that satisfy the Time          *)
(* dimension, the break constraints and the break placement                 *)
VehiclePlans(routes, v) ==
    IF start_range[v][1] > start_range[v][2] THEN {}
    ELSE {pl \in {[times |-> ts, brk |-> bs] :
                     ts \in CumulSeqs(routes[v], 1, Depot, route_start(v)),
                     bs \in BreakSeqs(routes, v, Len(breaks[v]))} :
            /\ \A c \in solver_constraints.conditional :
                  c.vehicle = v =>
                      ConditionalOK(c, pl.brk, v, pl.times[Len(pl.times)])
            /\ BreakPlacementOK(routes[v], pl.times, pl.brk, v)}

(* The assignment made of the routes and the vehicles' plans *)
MakeAssignment(routes, plans) ==
    [routes |-> routes,
     cumul |-> [n \in Nodes |->
                   IF VehicleVar(routes, n) = Dropped THEN 0
                   ELSE LET v == VehicleVar(routes, n)
                            k == CHOOSE k \in DOMAIN routes[v] : routes[v][k] = n
                        IN plans[v].times[k]],
     route_end |-> [v \in VehicleIds |-> plans[v].times[Len(plans[v].times)]],
     brk |-> [v \in VehicleIds |-> plans[v].brk]]

Visited(a, n) == VehicleVar(a.routes, n) # Dropped

(* Variant: the comparison reversed *)
CumulGeqOK(a) ==
    \A pd \in solver_constraints.cumul_leq :
        (Visited(a, pd[1]) /\ Visited(a, pd[2])) => a.cumul[pd[1]] >= a.cumul[pd[2]]

(* time_dimension.CumulVar(pickup) <= time_dimension.CumulVar(delivery)     *)
(* (lines 150-152); the cumuls of unvisited nodes are free                  *)
CumulLeqOK(a) ==
    \A pd \in solver_constraints.cumul_leq :
        (Visited(a, pd[1]) /\ Visited(a, pd[2])) => a.cumul[pd[1]] <= a.cumul[pd[2]]

(* The assignments that satisfy the model built so far *)
Solutions ==
    UNION {
        {MakeAssignment(routes, plans) :
            plans \in {pl \in Product([v \in VehicleIds |-> VehiclePlans(routes, v)],
                                      args.numvehicles) :
                          CumulLeqOK(MakeAssignment(routes, pl))}} :
        routes \in RouteChoices}

(* line 391: routing.SolveWithParameters returns an assignment of the model *)
SolveWithParameters ==
    /\ pc = "solve"
    /\ \E a \in Solutions : assignment' = a
    /\ pc' = "done"
    /\ UNCHANGED <<inputs, idx, i, intvl, pickup_deliveries, solver_constraints,
                   time_range, start_range, breaks, break_intervals,
                   disjunctions, next_domain>>

Next ==
    \/ AddPickupAndDelivery
    \/ SetPickupTimeWindow
    \/ SetVehicleStartWindow
    \/ FirstBreak
    \/ NextBreak
    \/ SetBreakIntervalsOfVehicle
    \/ AddDisjunction
    \/ SolveWithParameters

Spec == Init /\ [][Next]_vars

-----------------------------------------------------------------------------
(* Properties *)

Built == pc \in {"solve", "done"}

Solved == pc = "done"

(* The chain positions of the performed breaks of vehicle v in assignment a *)
PerformedBreaks(a, v) == {k \in DOMAIN a.brk[v] : a.brk[v][k].performed}

BreakStart(a, v, k) == a.brk[v][k].start

BreakEnd(a, v, k) == a.brk[v][k].start + breaks[v][k].duration

(* Performed breaks j, k of v with no performed break starting between them *)
AdjacentInStartOrder(a, v, j, k) ==
    /\ j # k
    /\ BreakStart(a, v, j) <= BreakStart(a, v, k)
    /\ ~\E m \in PerformedBreaks(a, v) \ {j, k} :
           /\ BreakStart(a, v, j) < BreakStart(a, v, m)
           /\ BreakStart(a, v, m) < BreakStart(a, v, k)

(* C1 as stated: in every returned assignment, any two performed breaks of  *)
(* a vehicle that are adjacent in start order, also across an unperformed   *)
(* chain entry, are separated by 660 minutes: later.start >= earlier.end +  *)
(* 660.                                                                     *)
C1_AdjacentPerformedSpaced ==
    Solved =>
        \A v \in VehicleIds :
            \A j, k \in PerformedBreaks(assignment, v) :
                AdjacentInStartOrder(assignment, v, j, k) =>
                    BreakStart(assignment, v, k)
                        >= BreakEnd(assignment, v, j) + 660

(* C1 amended: in every returned assignment, when break k and its chain     *)
(* predecessor k-1 are both performed, break k starts no earlier than 660   *)
(* minutes after break k-1 ends.                                            *)
C1_ChainNeighboursSpaced ==
    Solved =>
        \A v \in VehicleIds :
            \A k \in 2 .. Len(assignment.brk[v]) :
                ({k - 1, k} \subseteq PerformedBreaks(assignment, v)) =>
                    BreakStart(assignment, v, k)
                        >= BreakEnd(assignment, v, k - 1) + 660

(* A returned assignment with two performed chain neighbours *)
C1_Witness ==
    /\ Solved
    /\ \E v \in VehicleIds :
          \E k \in 2 .. Len(assignment.brk[v]) :
              {k - 1, k} \subseteq PerformedBreaks(assignment, v)

(* Length of the route of vehicle v: route end minus route start *)
RouteSpan(a, v) == a.route_end[v] - route_start(v)

ServedAll(a) ==
    \A k \in DOMAIN demand :
        Visited(a, demand[k].origin) /\ Visited(a, demand[k].destination)

(* One vehicle, one record whose stops are `minutes` apart *)
SingleVehicleRecord(minutes) ==
    /\ args.numvehicles = 1
    /\ Len(demand) = 1
    /\ expanded_mm[<<demand[1].origin, demand[1].destination>>] = minutes

IsScenarioA == SingleVehicleRecord(100) /\ demand[1].early = 0 /\ demand[1].late = 10080

IsScenarioB == SingleVehicleRecord(800) /\ args.horizon = 2000

(* Assignment a with every break of vehicle v after the first unperformed *)
WithoutLaterBreaks(a, v) ==
    [a EXCEPT !.brk[v] = [k \in DOMAIN a.brk[v] |->
                             IF k = 1 THEN a.brk[v][k] ELSE Unperformed]]

(* C2 as stated: a vehicle whose route finishes less than 660 minutes after *)
(* its start has no performed break, and the one-vehicle model of a depot   *)
(* and a stop pair 100 minutes apart with window [0, 10080] admits an       *)
(* assignment that visits both stops and performs no break.                 *)
C2_ShortRouteNoBreak ==
    /\ Solved =>
          \A v \in VehicleIds :
              RouteSpan(assignment, v) < 660 => PerformedBreaks(assignment, v) = {}
    /\ (pc = "solve" /\ IsScenarioA) =>
          \E a \in Solutions : ServedAll(a) /\ PerformedBreaks(a, 0) = {}

(* C2 amended: the first break of vehicle 0 is performed in every           *)
(* assignment, starting at route_start + 660, however short the route; for  *)
(* a vehicle whose route finishes less than 660 minutes after its start no  *)
(* constraint forces a later break of its chain: the assignment with those  *)
(* breaks unperformed satisfies the model too.                              *)
C2_OnlyAnchorBreakForced ==
    /\ Solved =>
          /\ 1 \in PerformedBreaks(assignment, 0)
          /\ BreakStart(assignment, 0, 1) = route_start(0) + 660
    /\ pc = "solve" =>
          LET sols == Solutions
          IN \A a \in sols :
                 \A v \in VehicleIds :
                     RouteSpan(a, v) < 660 => WithoutLaterBreaks(a, v) \in sols

(* Scenario A served with a route shorter than 660 minutes and the first    *)
(* break of vehicle 0 as the only performed break                           *)
C2_Witness ==
    /\ Solved
    /\ IsScenarioA
    /\ ServedAll(assignment)
    /\ RouteSpan(assignment, 0) < 660
    /\ PerformedBreaks(assignment, 0) = {1}

(* C3 as stated: with one vehicle, horizon 2000 and one record needing 800  *)
(* minutes of driving, some assignment of the model serves the record, and  *)
(* every assignment that serves it has exactly one performed break, of 600  *)
(* minutes, starting between 660 and 800.                                   *)
C3_ScenarioBServedWithOneBreak ==
    (pc = "solve" /\ IsScenarioB) =>
        /\ \E a \in Solutions : ServedAll(a)
        /\ \A a \in Solutions :
              ServedAll(a) =>
                  \E k \in DOMAIN a.brk[0] :
                      /\ PerformedBreaks(a, 0) = {k}
                      /\ breaks[0][k].duration = 600
                      /\ BreakStart(a, 0, k) >= 660
                      /\ BreakStart(a, 0, k) <= 800

(* C4 as stated: the first break of a vehicle other than vehicle 0 is       *)
(* performed if and only if some pickup node is assigned to that vehicle.   *)
C4_FirstBreakIffVehicleUsed ==
    Solved =>
        \A v \in VehicleIds \ {0} :
            (1 \in PerformedBreaks(assignment, v))
                <=> (\E n \in pickups : VehicleVar(assignment.routes, n) = v)

(* The conditional constraint of break k of vehicle v requires the break *)
Forced(a, v, k) ==
    \E c \in solver_constraints.conditional :
        /\ c.vehicle = v
        /\ c.break = k
        /\ route_start(v) + c.offset < a.route_end[v]

(* C5 as stated: for the k-th break of a chain, k >= 2, the break is        *)
(* performed whenever route_start + k*(660+600) < route_end, and the model  *)
(* does not force it when route_end <= route_start + k*(660+600).           *)
C5_ForcedOnlyPastKthCycle ==
    Solved =>
        \A v \in VehicleIds :
            \A k \in 2 .. Len(assignment.brk[v]) :
                /\ (route_start(v) + k * (660 + 600) < assignment.route_end[v])
                       => k \in PerformedBreaks(assignment, v)
                /\ (assignment.route_end[v] <= route_start(v) + k * (660 + 600))
                       => ~Forced(assignment, v, k)

(* C6: in every returned assignment, a record whose pickup and delivery are *)
(* both visited has them on the same vehicle, with the Time cumul of the    *)
(* pickup at most that of the delivery.                                     *)
C6_PickupBeforeDeliverySameVehicle ==
    Solved =>
        \A k \in DOMAIN demand :
            LET p == demand[k].origin
                q == demand[k].destination
            IN (Visited(assignment, p) /\ Visited(assignment, q)) =>
                   /\ VehicleVar(assignment.routes, p) = VehicleVar(assignment.routes, q)
                   /\ assignment.cumul[p] <= assignment.cumul[q]

(* A returned assignment that serves a record, the delivery strictly later *)
C6_Witness ==
    /\ Solved
    /\ \E k \in DOMAIN demand :
          /\ Visited(assignment, demand[k].origin)
          /\ Visited(assignment, demand[k].destination)
          /\ assignment.cumul[demand[k].origin] < assignment.cumul[demand[k].destination]

(* Node y directly follows node x on some route of assignment a *)
DirectTransition(a, x, y) ==
    \E v \in VehicleIds :
        LET path == <<Depot>> \o a.routes[v] \o <<Depot>>
        IN \E k \in 1 .. (Len(path) - 1) : path[k] = x /\ path[k + 1] = y

(* C7 as stated: for every pair (X, Y) whose matrix entry is undefined, Y   *)
(* has been removed from the next-node domain of X, and no returned         *)
(* assignment goes directly from X to Y.                                    *)
C7_UndefinedTransitionsRemoved ==
    Built =>
        \A x, y \in Nodes :
            expanded_mm[<<x, y>>] = NaN =>
                /\ y \notin next_domain[x]
                /\ Solved => ~DirectTransition(assignment, x, y)

(* C8 as stated: once the time windows are applied, the Time range of each  *)
(* pickup is [early, late] and that of its delivery is                      *)
(* [early + tt + floor(tt/660)*600, late + tt + floor(tt/660)*600 + 600],   *)
(* both within the dimension's [0, horizon].                                *)
C8_DeliveryWindowWidened ==
    (pc \notin {"pickup_delivery", "time_window"}) =>
        \A k \in DOMAIN demand :
            LET r == demand[k]
                tt == expanded_mm[<<r.origin, r.destination>>]
                rest == (tt \div 660) * 600
                whole == <<0, args.horizon>>
            IN /\ time_range[r.origin] = SetRange(whole, r.early, r.late)
               /\ time_range[r.destination] =
                      SetRange(whole, r.early + tt + rest, r.late + tt + rest + 600)

(* C9: once the model is built, the depot is in no disjunction and every    *)
(* other node is the only member of exactly one disjunction, whose penalty  *)
(* is 10,000,000 if the node has demand and 0 if it has none.               *)
C9_OneDisjunctionPerNode ==
    Built =>
        \A n \in Nodes :
            LET holding == {j \in DOMAIN disjunctions : n \in disjunctions[j].indices}
            IN IF n = Depot THEN holding = {}
               ELSE /\ Cardinality(holding) = 1
                    /\ \A j \in holding :
                          /\ disjunctions[j].indices = {n}
                          /\ disjunctions[j].penalty =
                                 IF get_demand(n) # 0 THEN 10000000 ELSE 0

(* A built model with a demand node and a node without demand *)
C9_Witness ==
    /\ Built
    /\ \E n, m \in RegularNodes : get_demand(n) # 0 /\ get_demand(m) = 0

(* C10 as stated: for every vehicle other than vehicle 0 some assignment of *)
(* the model has all pickups on that vehicle and its first break performed, *)
(* starting at route_start and after the end of the 11-minute initial       *)
(* drive that starts at route_start.                                        *)
C10_FirstBreakCanBePerformed ==
    pc = "solve" =>
        \A v \in VehicleIds \ {0} :
            \E a \in Solutions :
                /\ \A n \in pickups : VehicleVar(a.routes, n) = v
                /\ 1 \in PerformedBreaks(a, v)
                /\ BreakStart(a, v, 1) = route_start(v)
                /\ BreakStart(a, v, 1) >= route_start(v) + 11

====
